---- MODULE Spec2Model ----
(***************************************************************************)
(* Ceremony orchestration of the WebAuthn server: registration, account    *)
(* linking and the invite-code registry, as implemented by                 *)
(* server/src/auth/handlers.rs and server/src/auth/repository.rs.          *)
(*                                                                         *)
(* `req' is the bag of the requests being served, `last' the request that  *)
(* returned last.  A handler is cut at its await points                    *)
(* that touch shared state (the relational store or the session store);    *)
(* each such point is one atomic action, which is what a single SQL        *)
(* statement or a single session operation is.  The first step of a        *)
(* handler also admits the request (the handler has no effect and no       *)
(* observation before its first await).                                    *)
(***************************************************************************)
EXTENDS Naturals, Integers, Sequences, FiniteSets, Bags, TLC

\* ---------------------------------------------------------------- bounds
MaxInflight == 2
MaxTime == 1
MaxRequests == 4
MaxFaultRequests == 3
MaxFaults == 1
LinkTTL == 0
MaxGateRequests == 2
MaxCounter == 2

Sessions == {"s1", "s2"}
Usernames == {"alice", "bob"}
InviteCodes == {"INVITE01"}
LinkCodes == {"LINKCODE"}
Codes == InviteCodes \cup LinkCodes
NoCode == "-"
None == 0 - 1
NoPending == [username |-> "-", uid |-> None, code |-> NoCode, is_link |-> FALSE]
NoAuth == [uid |-> None, snap |-> <<>>]
NoToken == [present |-> FALSE, code_type |-> "-", used_at |-> None,
            used_by_user_id |-> None, is_active |-> FALSE,
            link_for_user_id |-> None, link_expires_at |-> None]

VARIABLES
    required,   \* config.features.invite_codes_required
    now,        \* the clock read by NOW() and now_utc()
    faults,     \* store failures that may still happen
    budget,     \* requests that may still be admitted
    users,      \* table users, in creation order; the id is the index
    creds,      \* table webauthn_credentials, in creation order
    tokens,     \* table invite_codes, by code
    sess,       \* session store: session -> [reg_state, auth_state, user_id]
    req,        \* the requests being served (a bag of records)
    last,       \* the request that returned last, with its outcome
    consumeLog, \* history: per code, the Ok results of use_invite_code
    takes,      \* history: per session, reads of the reg_state stored last
    mon         \* history: per session, position in start;finish;finish

vars == <<required, now, faults, budget, users, creds, tokens, sess, req,
          last, consumeLog, takes, mon>>

Idle == [op |-> "idle", s |-> "-", pc |-> "idle", username |-> "-",
         code |-> NoCode, is_link |-> FALSE, uid |-> None, role |-> "-",
         outcome |-> "-", raceLost |-> FALSE, fault |-> FALSE,
         verified |-> FALSE, ph |-> 0,
         snap |-> <<>>, cred |-> 0, n |-> 0, i |-> 0]

\* ------------------------------------------------------- models.rs
\* a check that takes every role for an admin
is_admin_any(role) == TRUE

\* UserRole::is_admin
is_admin(role) == role = "admin"

\* UserRole::can_access_analytics
can_access_analytics(role) == is_admin(role)

\* UserRole::can_manage_invites
can_manage_invites(role) == is_admin(role)

\* InviteCode::is_account_link_code
is_account_link_code(t) == t.code_type = "account-link"

\* is_expired that never says expired
is_expired_never(t, time) == FALSE

\* InviteCode::is_expired
is_expired(t, time) ==
    IF t.link_expires_at # None THEN time > t.link_expires_at ELSE FALSE

\* is_valid_for_use that forgets used_at
is_valid_for_use_ignoring_use(t, time) ==
    t.is_active /\ ~is_expired(t, time)

\* InviteCode::is_valid_for_use
is_valid_for_use(t, time) ==
    t.is_active /\ t.used_at = None /\ ~is_expired(t, time)

\* a target that is not the one the row names
get_target_user_id_other(t) ==
    IF is_account_link_code(t) THEN 2 ELSE None

\* InviteCode::get_target_user_id
get_target_user_id(t) ==
    IF is_account_link_code(t) THEN t.link_for_user_id ELSE None

\* ------------------------------------------------------- repository.rs
\* a lookup that finds no row
get_user_by_username_none(u) == None

\* AuthRepository::get_user_by_username: the id of the row, or None
get_user_by_username(u) ==
    IF \E i \in 1..Len(users) : users[i].username = u
    THEN CHOOSE i \in 1..Len(users) : users[i].username = u
    ELSE None

\* AuthRepository::get_user_by_id
get_user_by_id(id) == IF id \in 1..Len(users) THEN id ELSE None

\* the UPDATE without `AND used_at IS NULL'
use_invite_code_matches_used(c) ==
    tokens[c].present /\ tokens[c].is_active

\* AuthRepository::use_invite_code, the WHERE clause of the UPDATE
use_invite_code_matches(c) ==
    tokens[c].present /\ tokens[c].is_active /\ tokens[c].used_at = None

\* AuthRepository::use_invite_code, the table after the UPDATE
use_invite_code(c, user_id) ==
    IF use_invite_code_matches(c)
    THEN [tokens EXCEPT ![c].used_at = now, ![c].used_by_user_id = user_id]
    ELSE tokens

\* users.username without the UNIQUE constraint
username_never_taken(u) == FALSE

\* users.username is UNIQUE: the INSERT of create_user_with_role is refused
username_taken(u) == \E i \in 1..Len(users) : users[i].username = u

\* AuthRepository::create_user_with_role, the table after the INSERT
create_user_with_role(u, c, role) ==
    Append(users, [username |-> u, role |-> role, invite_code_used |-> c])

\* AuthRepository::save_credential for a credential the engine just made
\* (its credential_id is new, so ON CONFLICT does not apply); `via' is
\* history: the account link code the credential was saved under
save_credential(user_id, via) ==
    Append(creds, [user_id |-> user_id, counter |-> 0, via |-> via])

\* a SELECT without `WHERE user_id = $1'
get_user_credentials_all(user_id) ==
    [i \in 1..Len(creds) |-> [id |-> i, counter |-> creds[i].counter]]

\* AuthRepository::get_user_credentials: the rows of the user, each with
\* its place in the table and the counter of its passkey
get_user_credentials(user_id) ==
    SelectSeq([i \in 1..Len(creds) |-> [id |-> i, counter |-> creds[i].counter]],
              LAMBDA e : creds[e.id].user_id = user_id)

\* AuthRepository::update_credential, the table after the UPDATE: the
\* passkey as the caller holds it replaces the stored one
update_credential(sk) == [creds EXCEPT ![sk.id].counter = sk.counter]

\* Passkey::update_credential: the passkey that made the assertion takes
\* the counter of the result when that is greater
passkey_update_credential(sk, cred, n) ==
    IF sk.id = cred /\ n > sk.counter THEN [sk EXCEPT !.counter = n] ELSE sk

\* ------------------------------------------------------- history
LogConsume(c, user_id) ==
    LET hit == use_invite_code_matches(c)
        l == consumeLog[c]
    IN [consumeLog EXCEPT ![c] =
          [calls |-> IF l.calls < 2 THEN l.calls + 1 ELSE 2,
           trues |-> IF hit /\ l.trues < 2 THEN l.trues + 1 ELSE l.trues,
           linked |-> l.linked,
           at |-> IF hit /\ l.trues = 0 THEN now ELSE l.at,
           by |-> IF hit /\ l.trues = 0 THEN user_id ELSE l.by]]

MonX == [k |-> "-", st |-> 0, o1 |-> "-"]
MonOff == [k |-> "off", st |-> 0, o1 |-> "-"]

Busy(s) == \E q \in BagToSet(req) : q.s = s

\* The history `mon' follows, per session, the requests that run one after
\* the other: 1 a start runs, 2 it returned a challenge, 3 a finish runs,
\* 4 it returned (o1 is what it returned), 5 a second finish runs, 6 it
\* returned; 0 when requests of the session overlapped or came in another
\* order.  A request keeps in `ph' the position it was admitted at.  The
\* order is recorded in the specifications whose Init starts it at MonX.
\* a request of session s is admitted
MonBegin(s, kind, phase) ==
    IF mon[s] = MonOff THEN MonOff
    ELSE IF Busy(s) THEN MonX
    ELSE IF phase = "start" THEN [k |-> kind, st |-> 1, o1 |-> "-"]
    ELSE IF mon[s].k = kind /\ mon[s].st = 2 THEN [mon[s] EXCEPT !.st = 3]
    ELSE IF mon[s].k = kind /\ mon[s].st = 4 THEN [mon[s] EXCEPT !.st = 5]
    ELSE MonX

\* a request of the session returns `out'
MonEnd(m, out) ==
    IF m.st = 1 THEN (IF out = "Challenge" THEN [m EXCEPT !.st = 2] ELSE MonX)
    ELSE IF m.st = 3 THEN [m EXCEPT !.st = 4, !.o1 = out]
    ELSE IF m.st = 5 THEN [m EXCEPT !.st = 6]
    ELSE m

\* ------------------------------------------------------- error.rs
\* WebauthnError::into_response, and the status of the Ok answers; a
\* rejected assertion of finish_authentication is Ok(BAD_REQUEST)
into_response(outcome) ==
    CASE outcome = "CorruptSession" -> 400
      [] outcome = "UserNotFound" -> 404
      [] outcome = "Unknown" -> 500
      [] outcome = "UserHasNoCredentials" -> 400
      [] outcome = "InvalidInviteCode" -> 400
      [] outcome = "UserAlreadyExists" -> 409
      [] outcome = "DatabaseError" -> 500
      [] outcome = "BadRequest" -> 400
      [] OTHER -> 200

\* ------------------------------------------------------- request plumbing
\* a request waits while a request of another session runs with its code
Running_exclusive ==
    {r \in BagToSet(req) :
        \A q \in BagToSet(req) : q.s = r.s \/ q.code # r.code}

Running == BagToSet(req)

HasFree == budget > 0 /\ BagCardinality(req) < MaxInflight

CanFault == faults > 0

\* the first step of a handler goes on to pc
Admit(rec, kind, phase, pc) ==
    /\ req' = req (+) SetToBag({[rec EXCEPT !.pc = pc,
                                            !.ph = MonBegin(rec.s, kind, phase).st]})
    /\ last' = last
    /\ mon' = [mon EXCEPT ![rec.s] = MonBegin(rec.s, kind, phase)]
    /\ budget' = budget - 1

\* the first step of a handler returns
AdmitReturn(rec, kind, phase, out) ==
    /\ req' = req
    /\ last' = [rec EXCEPT !.pc = "done", !.outcome = out,
                           !.ph = MonBegin(rec.s, kind, phase).st]
    /\ mon' = [mon EXCEPT ![rec.s] = MonEnd(MonBegin(rec.s, kind, phase), out)]
    /\ budget' = budget - 1

\* a later step of request r goes on to pc, its record now rec
Goto(r, rec, pc) ==
    /\ req' = (req (-) SetToBag({r})) (+) SetToBag({[rec EXCEPT !.pc = pc]})
    /\ last' = last
    /\ mon' = mon

\* a later step of request r returns
Return(r, rec, out) ==
    /\ req' = req (-) SetToBag({r})
    /\ last' = [rec EXCEPT !.pc = "done", !.outcome = out]
    /\ mon' = [mon EXCEPT ![rec.s] = MonEnd(mon[rec.s], out)]

\* ------------------------------------------------------- session store
\* a remove_value that leaves the value in the session
remove_reg_state_kept(sv) == sv

\* Session::remove_value("reg_state")
remove_reg_state(sv) == [sv EXCEPT !.reg_state = NoPending]

\* Session::insert("reg_state", (username, user_unique_id, reg_state,
\* invite_code, is_account_linking))
insert_reg_state(sv, rec) ==
    [sv EXCEPT !.reg_state = [username |-> rec.username, uid |-> rec.uid,
                              code |-> rec.code, is_link |-> rec.is_link]]

\* a remove_value that leaves the auth_state in the session
remove_auth_state_kept(sv) == sv

\* Session::remove_value("auth_state")
remove_auth_state(sv) == [sv EXCEPT !.auth_state = NoAuth]

\* Session::insert("auth_state", (user.id, auth_state)); the auth_state
\* holds the credentials the challenge was made for
insert_auth_state(sv, rec) ==
    [sv EXCEPT !.auth_state = [uid |-> rec.uid, snap |-> rec.snap]]

\* an insert that stores the id of the first user
insert_user_id_first(sv, id) == [sv EXCEPT !.user_id = 1]

\* Session::insert("user_id", user.id)
insert_user_id(sv, id) == [sv EXCEPT !.user_id = id]

\* Uuid::new_v4() of start_register: an id no row of users has
Minted == 0

\* start_register without the comparison of handlers.rs:145
link_target_any(target, u) == TRUE

\* start_register, handlers.rs:145: the link code's user is the one named
link_target_matches(target, u) == users[target].username = u

\* ------------------------------------------------------- start_register
\* handlers.rs:76-129: the invite code gate (first step of the handler)
StartRegisterGate(s, u, c) ==
    /\ HasFree
    /\ LET rec == [Idle EXCEPT !.op = "start_register", !.s = s,
                               !.username = u, !.code = c]
       IN \/ /\ c = NoCode /\ required
             /\ AdmitReturn(rec, "reg", "start", "InvalidInviteCode")
             /\ UNCHANGED faults
          \/ /\ c = NoCode /\ ~required
             /\ Admit(rec, "reg", "start", "sr_user")
             /\ UNCHANGED faults
          \/ /\ c # NoCode /\ CanFault
             /\ faults' = faults - 1
             /\ AdmitReturn([rec EXCEPT !.fault = TRUE], "reg", "start", "DatabaseError")
          \/ /\ c # NoCode
             /\ UNCHANGED faults
             /\ IF tokens[c].present /\ is_valid_for_use(tokens[c], now)
                THEN Admit([rec EXCEPT !.is_link = is_account_link_code(tokens[c]),
                                       !.uid = get_target_user_id(tokens[c])],
                           "reg", "start", "sr_user")
                ELSE AdmitReturn(rec, "reg", "start", "InvalidInviteCode")
    /\ UNCHANGED <<required, now, users, creds, tokens, sess, consumeLog, takes>>

\* handlers.rs:131-188: account linking or new user
StartRegisterUser(r) ==
    /\ r.pc = "sr_user"
    /\ LET rec == r
       IN IF rec.is_link
          THEN \/ /\ rec.uid = None
                  /\ Return(r, rec, "InvalidInviteCode")
                  /\ UNCHANGED faults
               \/ /\ rec.uid # None /\ CanFault
                  /\ faults' = faults - 1
                  /\ Return(r, [rec EXCEPT !.fault = TRUE], "DatabaseError")
               \/ /\ rec.uid # None
                  /\ UNCHANGED faults
                  /\ IF get_user_by_id(rec.uid) = None
                     THEN Return(r, rec, "UserNotFound")
                     ELSE IF ~link_target_matches(rec.uid, rec.username)
                     THEN Return(r, rec, "InvalidInviteCode")
                     ELSE Goto(r, rec, "sr_remove")
          ELSE \/ /\ CanFault
                  /\ faults' = faults - 1
                  /\ Return(r, [rec EXCEPT !.fault = TRUE], "DatabaseError")
               \/ /\ UNCHANGED faults
                  /\ IF get_user_by_username(rec.username) # None
                     THEN Return(r, rec, "UserAlreadyExists")
                     ELSE Goto(r, [rec EXCEPT !.uid = Minted], "sr_remove")
    /\ UNCHANGED <<required, budget, now, users, creds, tokens, sess, consumeLog, takes>>

\* handlers.rs:190-191
StartRegisterRemove(r) ==
    /\ r.pc = "sr_remove"
    /\ sess' = [sess EXCEPT ![r.s] = remove_reg_state(@)]
    /\ Goto(r, r, "sr_insert")
    /\ UNCHANGED <<required, budget, now, faults, users, creds, tokens, consumeLog, takes>>

\* handlers.rs:193-233: get_user_credentials (read only for the exclude
\* list), start_passkey_registration, session insert
StartRegisterInsert(r) ==
    /\ r.pc = "sr_insert"
    /\ LET rec == r
       IN \/ /\ CanFault
             /\ faults' = faults - 1
             /\ Return(r, [rec EXCEPT !.fault = TRUE], "DatabaseError")
             /\ UNCHANGED <<sess, takes>>
          \/ /\ Return(r, rec, "Unknown")
             /\ UNCHANGED <<faults, sess, takes>>
          \/ /\ sess' = [sess EXCEPT ![rec.s] = insert_reg_state(@, rec)]
             /\ takes' = [takes EXCEPT ![rec.s] = 0]
             /\ Return(r, rec, "Challenge")
             /\ UNCHANGED faults
    /\ UNCHANGED <<required, budget, now, users, creds, tokens, consumeLog>>

\* ------------------------------------------------------- finish_register
\* handlers.rs:245-263: session.get("reg_state") (first step of the handler)
FinishRegisterGet(s) ==
    /\ HasFree
    /\ LET rec == [Idle EXCEPT !.op = "finish_register", !.s = s]
           st == sess[s].reg_state
       IN IF st = NoPending
          THEN /\ AdmitReturn(rec, "reg", "finish", "CorruptSession")
               /\ UNCHANGED takes
          ELSE /\ Admit([rec EXCEPT !.username = st.username, !.uid = st.uid,
                                    !.code = st.code, !.is_link = st.is_link],
                        "reg", "finish", "fr_remove")
               /\ takes' = [takes EXCEPT ![s] = IF @ < 2 THEN @ + 1 ELSE 2]
    /\ UNCHANGED <<required, now, faults, users, creds, tokens, sess, consumeLog>>

\* handlers.rs:265-271 and 372-375: session.remove_value("reg_state"), then
\* finish_passkey_registration accepts or rejects the client's response
FinishRegisterVerify(r) ==
    /\ r.pc = "fr_remove"
    /\ sess' = [sess EXCEPT ![r.s] = remove_reg_state(@)]
    /\ LET rec == r
       IN \/ Return(r, rec, "BadRequest")
          \/ LET ok == [rec EXCEPT !.verified = TRUE]
             IN IF rec.is_link
                THEN IF rec.code = NoCode
                     THEN Return(r, ok, "CorruptSession")
                     ELSE Goto(r, ok, "lk_get")
                ELSE Goto(r, ok, "nr_list")
    /\ UNCHANGED <<required, budget, now, faults, users, creds, tokens, consumeLog, takes>>

\* repository.rs:99-115 (link_credential_to_user): read and check the code
LinkGetCode(r) ==
    /\ r.pc = "lk_get"
    /\ LET rec == r
           t == tokens[rec.code]
       IN \/ /\ CanFault
             /\ faults' = faults - 1
             /\ Return(r, [rec EXCEPT !.fault = TRUE], "DatabaseError")
          \/ /\ UNCHANGED faults
             /\ IF /\ t.present
                   /\ is_account_link_code(t)
                   /\ is_valid_for_use(t, now)
                   /\ get_target_user_id(t) # None
                THEN Goto(r, [rec EXCEPT !.uid = get_target_user_id(t)], "lk_user")
                ELSE Return(r, rec, "DatabaseError")
    /\ UNCHANGED <<required, budget, now, users, creds, tokens, sess, consumeLog, takes>>

\* repository.rs:117-121
LinkGetUser(r) ==
    /\ r.pc = "lk_user"
    /\ LET rec == r
       IN \/ /\ CanFault
             /\ faults' = faults - 1
             /\ Return(r, [rec EXCEPT !.fault = TRUE], "DatabaseError")
          \/ /\ UNCHANGED faults
             /\ IF get_user_by_id(rec.uid) = None
                THEN Return(r, rec, "DatabaseError")
                ELSE Goto(r, rec, "lk_save")
    /\ UNCHANGED <<required, budget, now, users, creds, tokens, sess, consumeLog, takes>>

\* repository.rs:123-124
LinkSaveCredential(r) ==
    /\ r.pc = "lk_save"
    /\ LET rec == r
       IN \/ /\ CanFault
             /\ faults' = faults - 1
             /\ Return(r, [rec EXCEPT !.fault = TRUE], "DatabaseError")
             /\ UNCHANGED creds
          \/ /\ UNCHANGED faults
             /\ creds' = save_credential(rec.uid, rec.code)
             /\ Goto(r, rec, "lk_use")
    /\ UNCHANGED <<required, budget, now, users, tokens, sess, consumeLog, takes>>

\* repository.rs:126-130: the result of use_invite_code is dropped, an
\* error of it is returned
LinkUseCode(r) ==
    /\ r.pc = "lk_use"
    /\ LET rec == r
       IN \/ /\ CanFault
             /\ faults' = faults - 1
             /\ Return(r, [rec EXCEPT !.fault = TRUE], "DatabaseError")
             /\ UNCHANGED <<tokens, consumeLog>>
          \/ /\ UNCHANGED faults
             /\ tokens' = use_invite_code(rec.code, rec.uid)
             /\ consumeLog' = LogConsume(rec.code, rec.uid)
             /\ Goto(r, rec, "lk_login")
    /\ UNCHANGED <<required, budget, now, users, creds, sess, takes>>

\* handlers.rs:279-297
LinkLogin(r) ==
    /\ r.pc = "lk_login"
    /\ sess' = [sess EXCEPT ![r.s] = insert_user_id(@, r.uid)]
    /\ consumeLog' = [consumeLog EXCEPT ![r.code].linked =
                                            IF @ < 2 THEN @ + 1 ELSE 2]
    /\ Return(r, r, "Linked")
    /\ UNCHANGED <<required, budget, now, faults, users, creds, tokens, takes>>

\* handlers.rs:310-321: is this the first user
RegisterListUsers(r) ==
    /\ r.pc = "nr_list"
    /\ LET rec == r
       IN \/ /\ CanFault
             /\ faults' = faults - 1
             /\ Goto(r, [rec EXCEPT !.fault = TRUE, !.role = "member"], "nr_create")
          \/ /\ UNCHANGED faults
             /\ Goto(r, [rec EXCEPT !.role = IF Len(users) = 0 THEN "admin"
                                              ELSE "member"], "nr_create")
    /\ UNCHANGED <<required, budget, now, users, creds, tokens, sess, consumeLog, takes>>

\* handlers.rs:323-326 and 365-368
RegisterCreateUser(r) ==
    /\ r.pc = "nr_create"
    /\ LET rec == r
       IN \/ /\ CanFault
             /\ faults' = faults - 1
             /\ Return(r, [rec EXCEPT !.fault = TRUE], "DatabaseError")
             /\ UNCHANGED users
          \/ /\ UNCHANGED faults
             /\ IF username_taken(rec.username)
                THEN /\ Return(r, [rec EXCEPT !.raceLost = TRUE], "DatabaseError")
                     /\ UNCHANGED users
                ELSE /\ users' = create_user_with_role(rec.username, rec.code, rec.role)
                     /\ Goto(r, [rec EXCEPT !.uid = Len(users) + 1], "nr_save")
    /\ UNCHANGED <<required, budget, now, creds, tokens, sess, consumeLog, takes>>

\* handlers.rs:328-332
RegisterSaveCredential(r) ==
    /\ r.pc = "nr_save"
    /\ LET rec == r
       IN \/ /\ CanFault
             /\ faults' = faults - 1
             /\ Return(r, [rec EXCEPT !.fault = TRUE], "DatabaseError")
             /\ UNCHANGED creds
          \/ /\ UNCHANGED faults
             /\ creds' = save_credential(rec.uid, NoCode)
             /\ Goto(r, rec, IF rec.code # NoCode THEN "nr_use" ELSE "nr_login")
    /\ UNCHANGED <<required, budget, now, users, tokens, sess, consumeLog, takes>>

\* an error of use_invite_code returned to the client
use_invite_code_failed_fatal(r, rec) == Return(r, rec, "DatabaseError")

\* handlers.rs:336-339: `if let Err(e)' logs the error and goes on
use_invite_code_failed(r, rec) == Goto(r, rec, "nr_login")

\* handlers.rs:334-340: an error is logged, the result is dropped
RegisterUseCode(r) ==
    /\ r.pc = "nr_use"
    /\ LET rec == r
       IN \/ /\ CanFault
             /\ faults' = faults - 1
             /\ use_invite_code_failed(r, [rec EXCEPT !.fault = TRUE])
             /\ UNCHANGED <<tokens, consumeLog>>
          \/ /\ UNCHANGED faults
             /\ tokens' = use_invite_code(rec.code, rec.uid)
             /\ consumeLog' = LogConsume(rec.code, rec.uid)
             /\ Goto(r, rec, "nr_login")
    /\ UNCHANGED <<required, budget, now, users, creds, sess, takes>>

\* handlers.rs:342-363
RegisterLogin(r) ==
    /\ r.pc = "nr_login"
    /\ sess' = [sess EXCEPT ![r.s] = insert_user_id(@, r.uid)]
    /\ Return(r, r, "Registered")
    /\ UNCHANGED <<required, budget, now, faults, users, creds, tokens, consumeLog, takes>>

\* ------------------------------------------------------- start_authentication
\* handlers.rs:416: session.remove_value("auth_state") (first step)
StartAuthenticationRemove(s, u) ==
    /\ HasFree
    /\ sess' = [sess EXCEPT ![s] = remove_auth_state(@)]
    /\ Admit([Idle EXCEPT !.op = "start_authentication", !.s = s, !.username = u],
             "auth", "start", "sa_user")
    /\ UNCHANGED <<required, now, faults, users, creds, tokens, consumeLog, takes>>

\* handlers.rs:419-424: get_user_by_username
StartAuthenticationUser(r) ==
    /\ r.pc = "sa_user"
    /\ \/ /\ CanFault
          /\ faults' = faults - 1
          /\ Return(r, [r EXCEPT !.fault = TRUE], "DatabaseError")
       \/ /\ UNCHANGED faults
          /\ IF get_user_by_username(r.username) = None
             THEN Return(r, r, "UserNotFound")
             ELSE Goto(r, [r EXCEPT !.uid = get_user_by_username(r.username)], "sa_creds")
    /\ UNCHANGED <<required, budget, now, users, creds, tokens, sess, consumeLog, takes>>

\* handlers.rs:427-434: get_user_credentials
StartAuthenticationCreds(r) ==
    /\ r.pc = "sa_creds"
    /\ \/ /\ CanFault
          /\ faults' = faults - 1
          /\ Return(r, [r EXCEPT !.fault = TRUE], "DatabaseError")
       \/ /\ UNCHANGED faults
          /\ IF get_user_credentials(r.uid) = <<>>
             THEN Return(r, r, "UserHasNoCredentials")
             ELSE Goto(r, [r EXCEPT !.snap = get_user_credentials(r.uid)], "sa_insert")
    /\ UNCHANGED <<required, budget, now, users, creds, tokens, sess, consumeLog, takes>>

\* a match whose Err arm stores the auth_state too
auth_state_stored_always(engine_ok) == TRUE

\* handlers.rs:436-453: the session insert is in the Ok arm of the match on
\* start_passkey_authentication
auth_state_stored(engine_ok) == engine_ok

\* handlers.rs:436-455: start_passkey_authentication, session insert
StartAuthenticationInsert(r) ==
    /\ r.pc = "sa_insert"
    /\ \E engine_ok \in BOOLEAN :
          /\ sess' = IF auth_state_stored(engine_ok)
                     THEN [sess EXCEPT ![r.s] = insert_auth_state(@, r)]
                     ELSE sess
          /\ Return(r, r, IF engine_ok THEN "Challenge" ELSE "Unknown")
    /\ UNCHANGED <<required, budget, now, faults, users, creds, tokens, consumeLog, takes>>

\* ------------------------------------------------------- finish_authentication
\* a get that takes an absent auth_state for a stored one
auth_state_missing_never(st) == FALSE

\* handlers.rs:490-493: `.ok_or(WebauthnError::CorruptSession)'
auth_state_missing(st) == st = NoAuth

\* handlers.rs:490-493: session.get("auth_state") (first step)
FinishAuthenticationGet(s) ==
    /\ HasFree
    /\ LET rec == [Idle EXCEPT !.op = "finish_authentication", !.s = s]
           st == sess[s].auth_state
       IN IF auth_state_missing(st)
          THEN AdmitReturn(rec, "auth", "finish", "CorruptSession")
          ELSE Admit([rec EXCEPT !.uid = st.uid, !.snap = st.snap],
                     "auth", "finish", "fa_remove")
    /\ UNCHANGED <<required, now, faults, users, creds, tokens, sess, consumeLog, takes>>

\* handlers.rs:495-499 and 531-534: session.remove_value("auth_state"), then
\* finish_passkey_authentication rejects the assertion, or accepts one made
\* by a credential of the auth_state whose counter n is greater than the
\* counter that credential had in the auth_state
FinishAuthenticationVerify(r) ==
    /\ r.pc = "fa_remove"
    /\ sess' = [sess EXCEPT ![r.s] = remove_auth_state(@)]
    /\ \/ Return(r, r, "BadRequest")
       \/ \E k \in 1..Len(r.snap), n \in 1..MaxCounter :
             /\ n > r.snap[k].counter
             /\ Goto(r, [r EXCEPT !.verified = TRUE, !.cred = r.snap[k].id, !.n = n],
                     "fa_creds")
    /\ UNCHANGED <<required, budget, now, faults, users, creds, tokens, consumeLog, takes>>

\* handlers.rs:503-516: get_user_credentials, then update_credential of
\* each passkey in memory
FinishAuthenticationCreds(r) ==
    /\ r.pc = "fa_creds"
    /\ \/ /\ CanFault
          /\ faults' = faults - 1
          /\ Return(r, [r EXCEPT !.fault = TRUE], "DatabaseError")
       \/ /\ UNCHANGED faults
          /\ LET credentials == get_user_credentials(r.uid)
             IN IF credentials = <<>>
                THEN Return(r, r, "UserHasNoCredentials")
                ELSE Goto(r, [r EXCEPT !.i = 1,
                                       !.snap = [k \in 1..Len(credentials) |->
                                          passkey_update_credential(credentials[k], r.cred, r.n)]],
                          "fa_update")
    /\ UNCHANGED <<required, budget, now, users, creds, tokens, sess, consumeLog, takes>>

\* an error of update_credential returned to the client
update_credential_failed_fatal(r, rec, next) == Return(r, rec, "DatabaseError")

\* handlers.rs:517-520: `if let Err(e)' logs the error and the loop goes on
update_credential_failed(r, rec, next) == Goto(r, rec, next)

\* handlers.rs:514-521: the loop saves every passkey back, one UPDATE each;
\* an error is logged and the loop goes on
FinishAuthenticationUpdate(r) ==
    /\ r.pc = "fa_update"
    /\ LET next == IF r.i < Len(r.snap) THEN "fa_update" ELSE "fa_login"
       IN \/ /\ CanFault
             /\ faults' = faults - 1
             /\ update_credential_failed(r, [r EXCEPT !.fault = TRUE, !.i = @ + 1], next)
             /\ UNCHANGED creds
          \/ /\ UNCHANGED faults
             /\ creds' = update_credential(r.snap[r.i])
             /\ Goto(r, [r EXCEPT !.i = @ + 1], next)
    /\ UNCHANGED <<required, budget, now, users, tokens, sess, consumeLog, takes>>

\* handlers.rs:523-529
FinishAuthenticationLogin(r) ==
    /\ r.pc = "fa_login"
    /\ sess' = [sess EXCEPT ![r.s] = insert_user_id(@, r.uid)]
    /\ Return(r, r, "Authenticated")
    /\ UNCHANGED <<required, budget, now, faults, users, creds, tokens, consumeLog, takes>>

\* ------------------------------------------------------- middleware.rs
\* the role middlewares a route can be behind
Gates == {"require_admin", "require_analytics_access",
          "require_role_admin", "require_role_member"}

\* require_admin, require_analytics_access and require_role(required_role):
\* does the middleware let a user of this role through
has_access(gate, role) ==
    CASE gate = "require_admin" -> is_admin(role)
      [] gate = "require_analytics_access" -> can_access_analytics(role)
      [] gate = "require_role_admin" -> role = "admin"
      [] gate = "require_role_member" -> TRUE

\* a remove_value that leaves user_id in the session
remove_user_id_kept(sv) == sv

\* Session::remove_value("user_id")
remove_user_id(sv) == [sv EXCEPT !.user_id = None]

\* middleware.rs:39-50: require_authentication reads user_id from the
\* session (first step of a request to a route behind `gate')
RequireAuthenticationGet(s, gate) ==
    /\ HasFree
    /\ LET rec == [Idle EXCEPT !.op = gate, !.s = s]
       IN IF sess[s].user_id = None
          THEN AdmitReturn(rec, "access", "start", "Unauthorized")
          ELSE Admit([rec EXCEPT !.uid = sess[s].user_id], "access", "start", "ra_user")
    /\ UNCHANGED <<required, now, faults, users, creds, tokens, sess, consumeLog, takes>>

\* middleware.rs:52-66: get_user_by_id; a user_id without a user is removed
\* from the session
RequireAuthenticationUser(r) ==
    /\ r.pc = "ra_user"
    /\ \/ /\ CanFault
          /\ faults' = faults - 1
          /\ Return(r, [r EXCEPT !.fault = TRUE], "InternalServerError")
          /\ UNCHANGED sess
       \/ /\ UNCHANGED faults
          /\ IF get_user_by_id(r.uid) = None
             THEN /\ sess' = [sess EXCEPT ![r.s] = remove_user_id(@)]
                  /\ Return(r, r, "Unauthorized")
             ELSE /\ Goto(r, [r EXCEPT !.username = users[r.uid].username,
                                       !.role = users[r.uid].role], "ra_gate")
                  /\ UNCHANGED sess
    /\ UNCHANGED <<required, budget, now, users, creds, tokens, consumeLog, takes>>

\* middleware.rs:74-94, 97-113, 143-180: the role middleware of the route
\* decides on the user that require_authentication put in the request
RequireRoleGate(r) ==
    /\ r.pc = "ra_gate"
    /\ Return(r, r, IF has_access(r.op, r.role) THEN "Next" ELSE "Forbidden")
    /\ UNCHANGED <<required, budget, now, faults, users, creds, tokens, sess,
                   consumeLog, takes>>

\* ------------------------------------------------------- logout, auth_status
\* a store that keeps one record for all the sessions
session_write_shared(store, s, sv) == [t \in DOMAIN store |-> sv]

\* the Session extractor: a handler writes the record of its own session
session_write(store, s, sv) == [store EXCEPT ![s] = sv]

\* handlers.rs:465: session.remove_value("user_id") (first step of logout)
LogoutUserId(s) ==
    /\ HasFree
    /\ sess' = session_write(sess, s, remove_user_id(sess[s]))
    /\ Admit([Idle EXCEPT !.op = "logout", !.s = s], "logout", "start", "lo_auth")
    /\ UNCHANGED <<required, now, faults, users, creds, tokens, consumeLog, takes>>

\* handlers.rs:466: session.remove_value("auth_state")
LogoutAuthState(r) ==
    /\ r.pc = "lo_auth"
    /\ sess' = session_write(sess, r.s, remove_auth_state(sess[r.s]))
    /\ Goto(r, r, "lo_reg")
    /\ UNCHANGED <<required, budget, now, faults, users, creds, tokens, consumeLog, takes>>

\* the position of `mon' after a logout that ran alone in its session
LoggedOut == [k |-> "logout", st |-> 2, o1 |-> "-"]

\* handlers.rs:467-470: session.remove_value("reg_state"), Ok(StatusCode::OK)
LogoutRegState(r) ==
    /\ r.pc = "lo_reg"
    /\ sess' = session_write(sess, r.s, remove_reg_state(sess[r.s]))
    /\ req' = req (-) SetToBag({r})
    /\ last' = [r EXCEPT !.pc = "done", !.outcome = "LoggedOut"]
    /\ mon' = [mon EXCEPT ![r.s] = IF @.k = "logout" /\ @.st = 1 THEN LoggedOut
                                   ELSE IF @ = MonOff THEN MonOff ELSE MonX]
    /\ UNCHANGED <<required, budget, now, faults, users, creds, tokens, consumeLog, takes>>

\* handlers.rs:474-483: auth_status reports session.get("user_id")
AuthStatus(s) ==
    /\ HasFree
    /\ AdmitReturn([Idle EXCEPT !.op = "auth_status", !.s = s,
                                !.uid = sess[s].user_id],
                   "status", "start",
                   IF sess[s].user_id # None THEN "authenticated"
                   ELSE "unauthenticated")
    /\ UNCHANGED <<required, now, faults, users, creds, tokens, sess, consumeLog, takes>>

\* ------------------------------------------------------- environment
Tick ==
    /\ now < MaxTime
    /\ now' = now + 1
    /\ UNCHANGED <<required, budget, faults, users, creds, tokens, sess, req,
                   last, consumeLog, takes, mon>>

\* ------------------------------------------------------- specification
InviteToken ==
    [present |-> TRUE, code_type |-> "invite", used_at |-> None,
     used_by_user_id |-> None, is_active |-> TRUE,
     link_for_user_id |-> None, link_expires_at |-> None]

\* an account-link row written without its target
LinkToken_untargeted(target, expires) ==
    [present |-> TRUE, code_type |-> "account-link", used_at |-> None,
     used_by_user_id |-> None, is_active |-> TRUE,
     link_for_user_id |-> None, link_expires_at |-> expires]

LinkToken(target, expires) ==
    [present |-> TRUE, code_type |-> "account-link", used_at |-> None,
     used_by_user_id |-> None, is_active |-> TRUE,
     link_for_user_id |-> target, link_expires_at |-> expires]

\* ------------------------------------------------------- token registry
\* A code is the sequence of its characters; "e-acute" stands for the one
\* character U+00E9, which UTF-8 encodes in two bytes.
Rep(ch, n) == [i \in 1..n |-> ch]

\* repository.rs:404-405 (the CLI declares the same two values again,
\* users/mod.rs:524-525)
MIN_LENGTH == 8
MAX_LENGTH == 128

\* the codes create_invite_code is called with: around both length limits,
\* with every accepted class of character, and with refused characters
CandidateCodes ==
    { <<>>,
      Rep("A", MIN_LENGTH - 1),
      Rep("A", MIN_LENGTH),
      Rep("7", MIN_LENGTH),
      <<"A", "b", "7", "-", "_", "A", "b", "7">>,
      Rep("A", MAX_LENGTH),
      Rep("A", MAX_LENGTH + 1),
      Rep("A", MIN_LENGTH - 1) \o <<"!">>,
      Rep("e-acute", 4) }

\* char::len_utf8 of the characters used here
len_utf8(ch) == IF ch = "e-acute" THEN 2 ELSE 1

\* str::len: the length in bytes
str_len(code) ==
    Len(code) + Cardinality({i \in 1..Len(code) : len_utf8(code[i]) = 2})

\* char::is_ascii_alphanumeric of the characters used here
is_ascii_alphanumeric(ch) == ch \in {"A", "b", "7"}

\* AuthRepository::validate_invite_code_format: "Ok" or the error variant
validate_invite_code_format(code) ==
    IF code = <<>> THEN "InvalidInviteCodeFormat"
    ELSE IF str_len(code) < MIN_LENGTH THEN "InviteCodeTooShort"
    ELSE IF str_len(code) > MAX_LENGTH THEN "InviteCodeTooLong"
    ELSE IF ~ \A i \in 1..Len(code) :
                 is_ascii_alphanumeric(code[i]) \/ code[i] = "-" \/ code[i] = "_"
         THEN "InvalidInviteCodeFormat"
    ELSE "Ok"

\* invite_codes.code is UNIQUE (database.rs:294): the INSERT is refused
code_taken(code) == tokens[code].present

\* The columns the INSERT of create_invite_code leaves to the table's
\* defaults. The server's migrations are not in the tree; these are the
\* values the specification gives an Invite token.
invite_codes_defaults ==
    [code_type |-> "invite", link_for_user_id |-> None, link_expires_at |-> None]

\* the response of a registry operation
Responded(op, outcome) ==
    /\ last' = [Idle EXCEPT !.op = op, !.outcome = outcome]
    /\ budget > 0
    /\ budget' = budget - 1
    /\ UNCHANGED <<required, now, faults, users, creds, sess, req,
                   consumeLog, takes, mon>>

\* AuthRepository::create_invite_code; a refused INSERT is a sqlx::Error,
\* which `?' turns into AuthError::Database
CreateInviteCode(code) ==
    LET v == validate_invite_code_format(code)
    IN IF v # "Ok"
       THEN tokens' = tokens /\ Responded("create_invite_code", v)
       ELSE IF code_taken(code)
       THEN tokens' = tokens /\ Responded("create_invite_code", "Database")
       ELSE /\ tokens' = [tokens EXCEPT ![code] =
                    [InviteToken EXCEPT
                        !.code_type = invite_codes_defaults.code_type,
                        !.link_for_user_id = invite_codes_defaults.link_for_user_id,
                        !.link_expires_at = invite_codes_defaults.link_expires_at]]
            /\ Responded("create_invite_code", "Ok")

\* UserCommands::validate_code_length
validate_code_length(length) == length >= MIN_LENGTH /\ length <= MAX_LENGTH

\* UserCommands::generate_code: upper-case alphanumeric, `length' long
generate_code(length) ==
    {code \in CandidateCodes :
        /\ Len(code) = length
        /\ \A i \in 1..Len(code) : code[i] \in {"A", "7"}}

\* UserCommands::generate_account_link_code
GenerateAccountLinkCode(username, length, code) ==
    IF ~validate_code_length(length)
    THEN tokens' = tokens /\ Responded("generate_account_link_code", "InvalidLength")
    ELSE IF get_user_by_username(username) = None
    THEN tokens' = tokens /\ Responded("generate_account_link_code", "UserNotFound")
    ELSE /\ code \in generate_code(length)
         /\ IF code_taken(code)
            THEN tokens' = tokens
                 /\ Responded("generate_account_link_code", "Database")
            ELSE /\ tokens' = [tokens EXCEPT ![code] =
                        LinkToken(get_user_by_username(username), now + LinkTTL)]
                 /\ Responded("generate_account_link_code", "Ok")

\* AuthRepository::use_invite_code, called for a code of the registry
UseInviteCode(code, id) ==
    /\ tokens' = use_invite_code(code, id)
    /\ Responded("use_invite_code", IF use_invite_code_matches(code) THEN "true" ELSE "false")

InitCommon ==
    /\ required \in BOOLEAN
    /\ now = 0
    /\ sess = [s \in Sessions |-> [reg_state |-> NoPending, auth_state |-> NoAuth,
                                    user_id |-> None]]
    /\ req = EmptyBag
    /\ last = Idle
    /\ consumeLog = [c \in Codes |-> [calls |-> 0, trues |-> 0, linked |-> 0,
                                      at |-> None, by |-> None]]
    /\ takes = [s \in Sessions |-> 0]

\* a new deployment: no user yet, one invite code generated
InitRegDb ==
    /\ InitCommon
    /\ users = <<>>
    /\ creds = <<>>
    /\ tokens = [c \in Codes |-> IF c \in InviteCodes THEN InviteToken ELSE NoToken]

\* the store answers every statement; ceremonies race
InitReg ==
    /\ InitRegDb
    /\ budget = MaxRequests
    /\ faults = 0
    /\ mon = [s \in Sessions |-> MonOff]

\* the store fails up to MaxFaults statements
InitRegF ==
    /\ InitRegDb
    /\ budget = MaxFaultRequests
    /\ faults = MaxFaults
    /\ mon = [s \in Sessions |-> MonX]

\* a deployment in use: alice (the first user) and bob registered, and an
\* account link code generated for alice
InitLink ==
    /\ InitCommon
    /\ budget = MaxRequests
    /\ faults = MaxFaults
    /\ mon = [s \in Sessions |-> MonOff]
    /\ users = << [username |-> "alice", role |-> "admin", invite_code_used |-> NoCode],
                  [username |-> "bob", role |-> "member", invite_code_used |-> NoCode] >>
    /\ creds = << [user_id |-> 1, counter |-> 0, via |-> NoCode],
                  [user_id |-> 2, counter |-> 0, via |-> NoCode] >>
    /\ tokens = [c \in Codes |-> IF c \in LinkCodes THEN LinkToken(1, LinkTTL)
                                 ELSE NoToken]

\* the rows table invite_codes can hold for code c: an invite code or an
\* account link code for the first user, active or not, unused or used by
\* the first user at time 0
TokenStates(c) ==
    { [t EXCEPT !.is_active = a,
                !.used_at = IF u THEN 0 ELSE None,
                !.used_by_user_id = IF u THEN 1 ELSE None] :
        a \in BOOLEAN, u \in BOOLEAN,
        t \in IF c \in InviteCodes THEN {InviteToken}
              ELSE {LinkToken(1, e) : e \in 0..MaxTime} }

\* a deployment in use whose registry holds one code, in any state
InitGate ==
    /\ InitCommon
    /\ budget = MaxGateRequests
    /\ faults = 0
    /\ mon = [s \in Sessions |-> MonOff]
    /\ users = << [username |-> "alice", role |-> "admin", invite_code_used |-> NoCode] >>
    /\ creds = << [user_id |-> 1, counter |-> 0, via |-> NoCode] >>
    /\ \E c \in Codes : \E t \in TokenStates(c) :
          tokens = [d \in Codes |-> IF d = c THEN t ELSE NoToken]

\* a deployment in use: alice registered with one passkey, no code in the
\* registry
InitLogin ==
    /\ InitCommon
    /\ budget = MaxFaultRequests
    /\ faults = MaxFaults
    /\ mon = [s \in Sessions |-> MonOff]
    /\ users = << [username |-> "alice", role |-> "admin", invite_code_used |-> NoCode] >>
    /\ creds = << [user_id |-> 1, counter |-> 0, via |-> NoCode] >>
    /\ tokens = [c \in Codes |-> NoToken]

\* a deployment in use: alice is admin, bob member; each session is
\* anonymous or logged in as one of them
InitAccess ==
    /\ required \in BOOLEAN
    /\ now = 0
    /\ \E f \in [Sessions -> {None, 1, 2}] :
          sess = [s \in Sessions |-> [reg_state |-> NoPending, auth_state |-> NoAuth,
                                      user_id |-> f[s]]]
    /\ req = EmptyBag
    /\ last = Idle
    /\ consumeLog = [c \in Codes |-> [calls |-> 0, trues |-> 0, linked |-> 0,
                                      at |-> None, by |-> None]]
    /\ takes = [s \in Sessions |-> 0]
    /\ budget = MaxFaultRequests
    /\ faults = MaxFaults
    /\ mon = [s \in Sessions |-> MonOff]
    /\ users = << [username |-> "alice", role |-> "admin", invite_code_used |-> NoCode],
                  [username |-> "bob", role |-> "member", invite_code_used |-> NoCode] >>
    /\ creds = << [user_id |-> 1, counter |-> 0, via |-> NoCode],
                  [user_id |-> 2, counter |-> 0, via |-> NoCode] >>
    /\ tokens = [c \in Codes |-> NoToken]

\* the users registered so far, in order, each with one passkey or (after
\* a register_finish whose save_credential failed) with none
InitLoginStart ==
    /\ InitCommon
    /\ budget = MaxFaultRequests
    /\ faults = MaxFaults
    /\ mon = [s \in Sessions |-> MonOff]
    /\ \E n \in 0..2 :
          users = [i \in 1..n |-> [username |-> <<"alice", "bob">>[i],
                                   role |-> IF i = 1 THEN "admin" ELSE "member",
                                   invite_code_used |-> NoCode]]
    /\ \E owners \in SUBSET (1..Len(users)) :
          creds = SelectSeq([i \in 1..2 |-> [user_id |-> i, counter |-> 0, via |-> NoCode]],
                            LAMBDA c : c.user_id \in owners)
    /\ tokens = [c \in Codes |-> NoToken]

\* as InitAccess, and a session may hold the id of a user that is no longer
\* in table users: rows of users are deleted on the database only (the
\* credentials go with them, database.rs:318), the session store is apart
InitStale ==
    /\ required \in BOOLEAN
    /\ now = 0
    /\ \E f \in [Sessions -> {None, 1, 2, 3}] :
          sess = [s \in Sessions |-> [reg_state |-> NoPending, auth_state |-> NoAuth,
                                      user_id |-> f[s]]]
    /\ req = EmptyBag
    /\ last = Idle
    /\ consumeLog = [c \in Codes |-> [calls |-> 0, trues |-> 0, linked |-> 0,
                                      at |-> None, by |-> None]]
    /\ takes = [s \in Sessions |-> 0]
    /\ budget = MaxFaultRequests
    /\ faults = MaxFaults
    /\ mon = [s \in Sessions |-> MonOff]
    /\ users = << [username |-> "alice", role |-> "admin", invite_code_used |-> NoCode],
                  [username |-> "bob", role |-> "member", invite_code_used |-> NoCode] >>
    /\ creds = << [user_id |-> 1, counter |-> 0, via |-> NoCode],
                  [user_id |-> 2, counter |-> 0, via |-> NoCode] >>
    /\ tokens = [c \in Codes |-> NoToken]

StartSteps ==
    \/ \E r \in Running : StartRegisterUser(r)
    \/ \E r \in Running : StartRegisterRemove(r)
    \/ \E r \in Running : StartRegisterInsert(r)

FinishSteps ==
    \/ \E s \in Sessions : FinishRegisterGet(s)
    \/ \E r \in Running : FinishRegisterVerify(r)

NextReg ==
    \/ \E s \in Sessions, u \in Usernames, c \in InviteCodes \cup {NoCode} :
            StartRegisterGate(s, u, c)
    \/ StartSteps
    \/ FinishSteps
    \/ \E r \in Running : RegisterListUsers(r)
    \/ \E r \in Running : RegisterCreateUser(r)
    \/ \E r \in Running : RegisterSaveCredential(r)
    \/ \E r \in Running : RegisterUseCode(r)
    \/ \E r \in Running : RegisterLogin(r)

NextLink ==
    \/ \E s \in Sessions, u \in Usernames, c \in LinkCodes :
            StartRegisterGate(s, u, c)
    \/ StartSteps
    \/ FinishSteps
    \/ \E r \in Running : LinkGetCode(r)
    \/ \E r \in Running : LinkGetUser(r)
    \/ \E r \in Running : LinkSaveCredential(r)
    \/ \E r \in Running : LinkUseCode(r)
    \/ \E r \in Running : LinkLogin(r)
    \/ Tick

NextGate ==
    \/ \E s \in Sessions, u \in Usernames, c \in Codes \cup {NoCode} :
            StartRegisterGate(s, u, c)
    \/ StartSteps
    \/ Tick

StartAuthenticationSteps ==
    \/ \E s \in Sessions, u \in Usernames : StartAuthenticationRemove(s, u)
    \/ \E r \in Running : StartAuthenticationUser(r)
    \/ \E r \in Running : StartAuthenticationCreds(r)
    \/ \E r \in Running : StartAuthenticationInsert(r)

NextLogin ==
    \/ \E s \in Sessions, u \in Usernames : StartRegisterGate(s, u, NoCode)
    \/ StartSteps
    \/ StartAuthenticationSteps
    \/ \E s \in Sessions : FinishAuthenticationGet(s)
    \/ \E r \in Running : FinishAuthenticationVerify(r)
    \/ \E r \in Running : FinishAuthenticationCreds(r)
    \/ \E r \in Running : FinishAuthenticationUpdate(r)
    \/ \E r \in Running : FinishAuthenticationLogin(r)

NextAccess ==
    \/ \E s \in Sessions, gate \in Gates : RequireAuthenticationGet(s, gate)
    \/ \E r \in Running : RequireAuthenticationUser(r)
    \/ \E r \in Running : RequireRoleGate(r)

\* login ceremonies, and register_finish requests in sessions that never
\* started a registration
NextFinish ==
    \/ StartAuthenticationSteps
    \/ \E s \in Sessions : FinishRegisterGet(s)
    \/ \E s \in Sessions : FinishAuthenticationGet(s)
    \/ \E r \in Running : FinishAuthenticationVerify(r)
    \/ \E r \in Running : FinishAuthenticationCreds(r)
    \/ \E r \in Running : FinishAuthenticationUpdate(r)
    \/ \E r \in Running : FinishAuthenticationLogin(r)

SpecReg == InitReg /\ [][NextReg]_vars

SpecRegF == InitRegF /\ [][NextReg]_vars

SpecLink == InitLink /\ [][NextLink]_vars

SpecGate == InitGate /\ [][NextGate]_vars

SpecLogin == InitLogin /\ [][NextLogin]_vars

SpecAccess == InitAccess /\ [][NextAccess]_vars

SpecStale == InitStale /\ [][NextAccess]_vars

\* alice is registered, the store answers every statement; the order of
\* each session's requests is recorded
InitSession ==
    /\ InitCommon
    /\ budget = MaxFaultRequests
    /\ faults = 0
    /\ mon = [s \in Sessions |-> MonX]
    /\ users = << [username |-> "alice", role |-> "admin", invite_code_used |-> NoCode] >>
    /\ creds = << [user_id |-> 1, counter |-> 0, via |-> NoCode] >>
    /\ tokens = [c \in Codes |-> NoToken]

\* every handler of the session: registration without a code in the
\* registry, login, logout and auth_status
NextSession ==
    \/ \E s \in Sessions, u \in Usernames, c \in InviteCodes \cup {NoCode} :
            StartRegisterGate(s, u, c)
    \/ StartSteps
    \/ FinishSteps
    \/ \E r \in Running : RegisterListUsers(r)
    \/ \E r \in Running : RegisterCreateUser(r)
    \/ \E r \in Running : RegisterSaveCredential(r)
    \/ \E r \in Running : RegisterLogin(r)
    \/ StartAuthenticationSteps
    \/ \E s \in Sessions : FinishAuthenticationGet(s)
    \/ \E r \in Running : FinishAuthenticationVerify(r)
    \/ \E r \in Running : FinishAuthenticationCreds(r)
    \/ \E r \in Running : FinishAuthenticationUpdate(r)
    \/ \E r \in Running : FinishAuthenticationLogin(r)
    \/ \E s \in Sessions : LogoutUserId(s)
    \/ \E r \in Running : LogoutAuthState(r)
    \/ \E r \in Running : LogoutRegState(r)
    \/ \E s \in Sessions : AuthStatus(s)

SpecSession == InitSession /\ [][NextSession]_vars

\* the pending ceremonies a session can hold once its starts have returned
\* their challenges: a registration of bob with the invite code, a link
\* ceremony of alice with her account link code, a login of alice
PendingRegs ==
    { NoPending,
      [username |-> "bob", uid |-> Minted, code |-> "INVITE01", is_link |-> FALSE],
      [username |-> "alice", uid |-> 1, code |-> "LINKCODE", is_link |-> TRUE] }

PendingAuths == { NoAuth, [uid |-> 1, snap |-> << [id |-> 1, counter |-> 0] >>] }

\* alice is registered, an invite code and an account link code for alice
\* are in the registry; every session holds pending ceremonies whose
\* challenges were returned, at most one session is logged in as alice and
\* at most one holds her pending login
InitPending ==
    /\ required = TRUE
    /\ now = 0
    /\ sess \in [Sessions -> [reg_state : PendingRegs, auth_state : PendingAuths,
                              user_id : {None, 1}]]
    /\ Cardinality({s \in Sessions : sess[s].user_id # None}) <= 1
    /\ Cardinality({s \in Sessions : sess[s].auth_state # NoAuth}) <= 1
    /\ req = EmptyBag
    /\ last = Idle
    /\ consumeLog = [c \in Codes |-> [calls |-> 0, trues |-> 0, linked |-> 0,
                                      at |-> None, by |-> None]]
    /\ takes = [s \in Sessions |-> 0]
    /\ budget = MaxGateRequests
    /\ faults = MaxFaults
    /\ mon = [s \in Sessions |-> MonOff]
    /\ users = << [username |-> "alice", role |-> "admin", invite_code_used |-> NoCode] >>
    /\ creds = << [user_id |-> 1, counter |-> 0, via |-> NoCode] >>
    /\ tokens = [c \in Codes |-> IF c \in InviteCodes THEN InviteToken
                                 ELSE LinkToken(1, LinkTTL)]

\* the finish handlers of the three kinds of ceremony
NextPending ==
    \/ FinishSteps
    \/ \E r \in Running : RegisterListUsers(r)
    \/ \E r \in Running : RegisterCreateUser(r)
    \/ \E r \in Running : RegisterSaveCredential(r)
    \/ \E r \in Running : RegisterUseCode(r)
    \/ \E r \in Running : RegisterLogin(r)
    \/ \E r \in Running : LinkGetCode(r)
    \/ \E r \in Running : LinkGetUser(r)
    \/ \E r \in Running : LinkSaveCredential(r)
    \/ \E r \in Running : LinkUseCode(r)
    \/ \E r \in Running : LinkLogin(r)
    \/ \E s \in Sessions : FinishAuthenticationGet(s)
    \/ \E r \in Running : FinishAuthenticationVerify(r)
    \/ \E r \in Running : FinishAuthenticationCreds(r)
    \/ \E r \in Running : FinishAuthenticationUpdate(r)
    \/ \E r \in Running : FinishAuthenticationLogin(r)

SpecPending == InitPending /\ [][NextPending]_vars

\* every session holds the same pending registration (of bob with the
\* invite code, or of alice's link code) and possibly alice's pending login;
\* the database answers every call
InitShared ==
    /\ required = TRUE
    /\ now = 0
    /\ \E p \in PendingRegs \ {NoPending}, a \in PendingAuths :
          sess = [s \in Sessions |-> [reg_state |-> p, auth_state |-> a,
                                      user_id |-> None]]
    /\ req = EmptyBag
    /\ last = Idle
    /\ consumeLog = [c \in Codes |-> [calls |-> 0, trues |-> 0, linked |-> 0,
                                      at |-> None, by |-> None]]
    /\ takes = [s \in Sessions |-> 0]
    /\ budget = MaxGateRequests
    /\ faults = 0
    /\ mon = [s \in Sessions |-> MonOff]
    /\ users = << [username |-> "alice", role |-> "admin", invite_code_used |-> NoCode] >>
    /\ creds = << [user_id |-> 1, counter |-> 0, via |-> NoCode] >>
    /\ tokens = [c \in Codes |-> IF c \in InviteCodes THEN InviteToken
                                 ELSE LinkToken(1, LinkTTL)]

\* a start or a finish of one of the three ceremonies is invoked
Invoke ==
    \/ \E s \in Sessions : StartRegisterGate(s, "bob", "INVITE01")
    \/ \E s \in Sessions : StartRegisterGate(s, "alice", "LINKCODE")
    \/ \E s \in Sessions : FinishRegisterGet(s)
    \/ \E s \in Sessions : StartAuthenticationRemove(s, "alice")
    \/ \E s \in Sessions : FinishAuthenticationGet(s)

\* a running request is polled: it goes on to its next await or returns
Poll ==
    \/ \E r \in Running : StartRegisterUser(r)
    \/ \E r \in Running : StartRegisterRemove(r)
    \/ \E r \in Running : StartRegisterInsert(r)
    \/ \E r \in Running : FinishRegisterVerify(r)
    \/ \E r \in Running : RegisterListUsers(r)
    \/ \E r \in Running : RegisterCreateUser(r)
    \/ \E r \in Running : RegisterSaveCredential(r)
    \/ \E r \in Running : RegisterUseCode(r)
    \/ \E r \in Running : RegisterLogin(r)
    \/ \E r \in Running : LinkGetCode(r)
    \/ \E r \in Running : LinkGetUser(r)
    \/ \E r \in Running : LinkSaveCredential(r)
    \/ \E r \in Running : LinkUseCode(r)
    \/ \E r \in Running : LinkLogin(r)
    \/ \E r \in Running : StartAuthenticationUser(r)
    \/ \E r \in Running : StartAuthenticationCreds(r)
    \/ \E r \in Running : StartAuthenticationInsert(r)
    \/ \E r \in Running : FinishAuthenticationVerify(r)
    \/ \E r \in Running : FinishAuthenticationCreds(r)
    \/ \E r \in Running : FinishAuthenticationUpdate(r)
    \/ \E r \in Running : FinishAuthenticationLogin(r)

NextShared == Invoke \/ Poll

\* the runtime polls a request that can go on; nothing obliges a client to
\* invoke a handler
FairSpecShared == InitShared /\ [][NextShared]_vars /\ WF_vars(Poll)

SpecFinish == InitLogin /\ [][NextFinish]_vars

\* the operators' store: two users, no code yet
InitRegistry ==
    /\ InitCommon
    /\ budget = MaxFaultRequests
    /\ faults = 0
    /\ mon = [s \in Sessions |-> MonOff]
    /\ users = << [username |-> "alice", role |-> "admin", invite_code_used |-> NoCode],
                  [username |-> "bob", role |-> "member", invite_code_used |-> NoCode] >>
    /\ creds = << [user_id |-> 1, counter |-> 0, via |-> NoCode] >>
    /\ tokens = [code \in CandidateCodes |-> NoToken]

NextRegistry ==
    \/ \E code \in CandidateCodes : CreateInviteCode(code)
    \/ \E username \in Usernames \cup {"carol"},
          length \in {MIN_LENGTH - 1, MIN_LENGTH},
          code \in CandidateCodes :
            GenerateAccountLinkCode(username, length, code)
    \/ \E code \in CandidateCodes, id \in 1..Len(users) : UseInviteCode(code, id)
    \/ Tick

SpecRegistry == InitRegistry /\ [][NextRegistry]_vars

SpecLoginStart == InitLoginStart /\ [][StartAuthenticationSteps]_vars

\* ------------------------------------------------------- properties
UsersNamed(u) == {i \in 1..Len(users) : users[i].username = u}
UsersInvitedBy(c) == {i \in 1..Len(users) : users[i].invite_code_used = c}
CredsLinkedBy(c) == {i \in 1..Len(creds) : creds[i].via = c}
Admins == {i \in 1..Len(users) : users[i].role = "admin"}

\* C1: of the use_invite_code calls made for one code that was active and
\* unused, never more than one returns true, and as soon as one call has
\* returned exactly one has returned true (every other returned false).
C1_ExactlyOneConsumeWins ==
    \A c \in Codes :
        /\ consumeLog[c].trues <= 1
        /\ consumeLog[c].calls >= 1 => consumeLog[c].trues = 1

\* two ceremonies called use_invite_code for the same code
C1_Witness ==
    \E c \in Codes : consumeLog[c].calls = 2 /\ consumeLog[c].trues = 1

\* C2: at most one Identity is ever created whose originating token is a
\* given Invite code.
C2_InviteCreatesOneIdentity ==
    \A c \in InviteCodes : Cardinality(UsersInvitedBy(c)) <= 1

\* C3: at most one credential is persisted on behalf of an AccountLink code
\* and at most one finish returns Linked for it.
C3_LinkCodeSingleUse ==
    \A c \in LinkCodes :
        /\ Cardinality(CredsLinkedBy(c)) <= 1
        /\ consumeLog[c].linked <= 1

\* C4: of the finish requests that run against one stored pending ceremony,
\* at most one obtains it (and goes on to verification).
C4_TakeIsAtomic ==
    \A s \in Sessions : takes[s] <= 1

\* C5: after one start, a finish and a second finish, one after the other
\* in the same session, the second finish returns CorruptSession at its
\* first step, whatever the first finish returned; it never reaches
\* verification or persistence.
C5_SecondFinishCorrupt ==
    /\ \A r \in Running : ~(r.op = "finish_register" /\ r.ph = 5)
    /\ (last.op = "finish_register" /\ last.ph = 5)
            => last.outcome = "CorruptSession"

\* the first finish failed on the store after verification, the second
\* finish returned CorruptSession
C5_Witness ==
    /\ last.op = "finish_register" /\ last.ph = 5
    /\ last.outcome = "CorruptSession"
    /\ mon[last.s].st = 6
    /\ mon[last.s].o1 = "DatabaseError"

\* a start_register whose AccountLink code passed the gate and names a
\* target user with another username than the one requested
Mismatched(r) ==
    /\ r.op = "start_register" /\ r.is_link
    /\ r.uid \in 1..Len(users)
    /\ users[r.uid].username # r.username

\* C6: a start_register with an AccountLink code that passed the gate
\* (active, unused, unexpired) and whose target user has another username
\* returns InvalidInviteCode at the comparison when the store answers, is
\* never issued a challenge and never reaches the session store; no pending
\* link registration names a user other than its target.
C6_LinkCodeBoundToUser ==
    /\ \A r \in Running : Mismatched(r) => r.pc = "sr_user"
    /\ Mismatched(last) => /\ last.outcome # "Challenge"
                           /\ ~last.fault => last.outcome = "InvalidInviteCode"
    /\ \A s \in Sessions :
          sess[s].reg_state.is_link
          => users[sess[s].reg_state.uid].username = sess[s].reg_state.username

\* bob presented alice's valid link code and was refused
C6_Witness ==
    /\ Mismatched(last)
    /\ last.outcome = "InvalidInviteCode"
    /\ is_valid_for_use(tokens[last.code], now)

\* C7: when the store answers every statement, as soon as an Identity
\* exists exactly one Identity is Admin and it is the first one created.
C7_ExactlyOneAdmin ==
    Len(users) >= 1 => (Cardinality(Admins) = 1 /\ users[1].role = "admin")

\* C8: no two Identities have the same username, and a registration
\* ceremony that ran to the end of its finish (it registered the user, or
\* lost the race for the username) leaves exactly one Identity of its
\* username.
C8_UsernameUnique ==
    /\ \A u \in Usernames : Cardinality(UsersNamed(u)) <= 1
    /\ ( /\ last.op = "finish_register"
         /\ (last.outcome = "Registered" \/ last.raceLost) )
       => Cardinality(UsersNamed(last.username)) = 1

\* two ceremonies for one username both verified; one lost at finish
C8_Witness ==
    /\ last.op = "finish_register"
    /\ last.raceLost /\ last.verified
    /\ Cardinality(UsersNamed(last.username)) = 1

\* C9: the ceremony that loses the race for a username returns Conflict or
\* UserAlreadyExists, also when it loses at register_finish.
C9_RaceLoserGetsConflict ==
    last.raceLost => last.outcome \in {"Conflict", "UserAlreadyExists"}

\* C10: once use_invite_code has returned true for a token, the token is
\* not valid for use, no later call returns true, and used_at and
\* used_by_user_id are the ones that call recorded.
C10_ConsumedStaysConsumed ==
    \A c \in Codes :
        consumeLog[c].trues >= 1
        => /\ ~is_valid_for_use(tokens[c], now)
           /\ consumeLog[c].trues = 1
           /\ tokens[c].used_at = consumeLog[c].at
           /\ tokens[c].used_by_user_id = consumeLog[c].by

\* a consumed token, later: the clock moved on and another call was made
C10_Witness ==
    \E c \in Codes :
        /\ consumeLog[c].trues = 1 /\ consumeLog[c].calls = 2
        /\ now > consumeLog[c].at

\* C11: every token with used_at set is inactive (is_active is false).
C11_UsedImpliesInactive ==
    \A c \in Codes : tokens[c].used_at # None => ~tokens[c].is_active

\* C16: the Identity created first has role admin (the store held no
\* Identity when its register_finish looked).
C16_FirstIdentityAdmin ==
    Len(users) >= 1 => users[1].role = "admin"

\* C17: for every token of the registry and the current time,
\* is_valid_for_use is active, unused and (an invite code or now before
\* link_expires_at); at now = link_expires_at the token is invalid.
C17_ValidForUseFormula ==
    \A c \in Codes :
        tokens[c].present
        => ( is_valid_for_use(tokens[c], now)
             <=> /\ tokens[c].is_active
                 /\ tokens[c].used_at = None
                 /\ \/ tokens[c].code_type = "invite"
                    \/ now < tokens[c].link_expires_at )

\* C18: use_invite_code marks a token used only when the token is valid
\* for use at that instant: an account link code is never marked used at a
\* time after its link_expires_at.
C18_ConsumeOnlyValid ==
    \A c \in Codes :
        (tokens[c].used_at # None /\ tokens[c].link_expires_at # None)
        => tokens[c].used_at <= tokens[c].link_expires_at

\* C19: in a link register_finish whose credential is saved, the step that
\* consumes the code never ends the request: the finish goes on to return
\* Linked whether use_invite_code fails or returns false.
C19_LinkConsumeNotFatal ==
    [][\A r \in Running :
          LinkUseCode(r) => BagCardinality(req') = BagCardinality(req)]_vars

\* a non-link register_finish with a code that has persisted its Identity
\* and its Credential
PersistedBy(r) ==
    /\ r.op = "finish_register" /\ ~r.is_link /\ r.code # NoCode
    /\ r.uid \in 1..Len(users)
    /\ \E i \in 1..Len(creds) : creds[i].user_id = r.uid

GateRefuses(c) ==
    IF c = NoCode THEN required
    ELSE \/ ~tokens[c].present
         \/ ~tokens[c].is_active
         \/ tokens[c].used_at # None
         \/ (tokens[c].link_expires_at # None /\ now > tokens[c].link_expires_at)

C12_CounterNeverRegresses ==
    [][\A i \in 1..Len(creds) : creds'[i].counter >= creds[i].counter]_vars

\* C13: a session never holds a pending registration and a pending
\* authentication at the same time.
C13_OnePendingCeremony ==
    \A s \in Sessions :
        ~(sess[s].reg_state # NoPending /\ sess[s].auth_state # NoAuth)

\* a step of start_register or start_authentication
StartStep ==
    \/ \E s \in Sessions, u \in Usernames, c \in Codes \cup {NoCode} :
            StartRegisterGate(s, u, c)
    \/ StartSteps
    \/ StartAuthenticationSteps

\* C15: no step of a register_start or login_start changes the durable
\* store, and the only step of them that stores a pending ceremony in the
\* session is the one that returns the challenge: a start that returns an
\* error has stored nothing.
C15_FailedStartNoResidue ==
    [][StartStep =>
         /\ users' = users /\ creds' = creds /\ tokens' = tokens
         /\ \A s \in Sessions :
               \/ /\ sess'[s].reg_state \in {sess[s].reg_state, NoPending}
                  /\ sess'[s].auth_state \in {sess[s].auth_state, NoAuth}
               \/ /\ BagCardinality(req') < BagCardinality(req)
                  /\ last'.s = s /\ last'.outcome = "Challenge"]_vars

\* a login_start failed in the engine after the user and the credentials
\* were read; the session holds no pending authentication
C15_Witness ==
    /\ last.op = "start_authentication" /\ last.outcome = "Unknown"
    /\ last.snap # <<>>
    /\ sess[last.s].auth_state = NoAuth

\* C21: a login_finish whose verification succeeded and that has read the
\* credentials only has the saving of the passkeys and the login left: no
\* failure of update_credential ends it, it returns Authenticated with the
\* session's user_id set.
C21_CounterSaveNotFatal ==
    /\ \A r \in Running :
          (r.op = "finish_authentication" /\ r.i >= 1)
          => r.pc \in {"fa_update", "fa_login"}
    /\ (last.op = "finish_authentication" /\ last.i >= 1)
          => /\ last.outcome = "Authenticated"
             /\ sess[last.s].user_id = last.uid

\* update_credential failed on the store (the stored counter is not the
\* one of the assertion); the login_finish returned Authenticated
C21_Witness ==
    /\ last.op = "finish_authentication" /\ last.outcome = "Authenticated"
    /\ last.fault
    /\ creds[last.cred].counter < last.n
    /\ sess[last.s].user_id = last.uid

\* C22: in a non-link register_finish, a failure of list_users, of
\* create_user_with_role or of save_credential on the store ends the
\* request with DatabaseError.
C22_StoreFailureIsDatabaseError ==
    [][\A r \in Running :
          ( /\ RegisterListUsers(r) \/ RegisterCreateUser(r) \/ RegisterSaveCredential(r)
            /\ faults' < faults )
          => /\ BagCardinality(req') < BagCardinality(req)
             /\ last'.outcome = "DatabaseError"]_vars

\* C23: a non-link start_register that finds its username in table users
\* returns UserAlreadyExists at that step, is issued no challenge and
\* leaves the session as it was.
C23_ExistingUsernameRefused ==
    [][\A r \in Running :
          ( /\ StartRegisterUser(r)
            /\ ~r.is_link
            /\ faults' = faults
            /\ UsersNamed(r.username) # {} )
          => /\ BagCardinality(req') < BagCardinality(req)
             /\ last'.outcome = "UserAlreadyExists"
             /\ sess' = sess]_vars

\* a start_register with a valid invite code for a registered username was
\* refused
C23_Witness ==
    /\ last.op = "start_register" /\ last.outcome = "UserAlreadyExists"
    /\ last.code \in InviteCodes
    /\ UsersNamed(last.username) # {}

\* C26: a link ceremony leaves table users as it is; every credential
\* saved under an account link code is owned by the code's target user, no
\* step saves more than one credential, a used code is used by its target,
\* and when a finish has returned Linked the code is used and a credential
\* saved under it exists.
C26_LinkFrame ==
    /\ [][users' = users /\ Len(creds') <= Len(creds) + 1]_vars
    /\ [](\A c \in LinkCodes :
            /\ \A i \in CredsLinkedBy(c) : creds[i].user_id = tokens[c].link_for_user_id
            /\ tokens[c].used_at # None
                    => tokens[c].used_by_user_id = tokens[c].link_for_user_id)
    /\ [](last.outcome = "Linked"
            => /\ tokens[last.code].used_at # None
               /\ CredsLinkedBy(last.code) # {}
               /\ last.uid = tokens[last.code].link_for_user_id)

\* a link finish returned Linked
C26_Witness ==
    /\ last.op = "finish_register" /\ last.outcome = "Linked"
    /\ Cardinality(CredsLinkedBy(last.code)) = 1
    /\ tokens[last.code].used_by_user_id = last.uid

\* C29: the status of every answer is the one stated for its outcome: 409
\* for a lost race for a username (also when lost at finish), 400 for
\* validation and ceremony errors, 404 for an unknown user, 500 for store
\* and engine failures.
C29_StatusMapping ==
    LET stated ==
          IF last.raceLost \/ last.outcome \in {"UserAlreadyExists", "Conflict"} THEN 409
          ELSE IF last.outcome \in {"InvalidInviteCode", "CorruptSession",
                                    "UserHasNoCredentials", "BadRequest"} THEN 400
          ELSE IF last.outcome = "UserNotFound" THEN 404
          ELSE IF last.outcome \in {"DatabaseError", "Unknown"} THEN 500
          ELSE 200
    IN last.pc = "done" => into_response(last.outcome) = stated

\* C30: is_admin, can_access_analytics and can_manage_invites are true
\* exactly for role admin; of the requests of an authenticated user,
\* require_admin answers Forbidden to every member and lets every admin
\* through, and require_role(Member) lets admins and members through.
C30_RoleGating ==
    /\ \A role \in {"admin", "member"} :
          /\ is_admin(role) <=> role = "admin"
          /\ can_access_analytics(role) <=> role = "admin"
          /\ can_manage_invites(role) <=> role = "admin"
    /\ (last.op \in Gates /\ last.role # "-")
          => /\ last.op = "require_admin"
                  => (last.outcome = "Forbidden" <=> last.role = "member")
             /\ last.op = "require_role_member" => last.outcome = "Next"
             /\ last.outcome \in {"Next", "Forbidden"}

\* bob, a member, asked for a route behind require_admin and was refused
C30_Witness ==
    /\ last.op = "require_admin" /\ last.role = "member"
    /\ last.outcome = "Forbidden"
    /\ users[last.uid].role = "member"

\* the credentials of user id in table webauthn_credentials
CredsOf(id) == {i \in 1..Len(creds) : creds[i].user_id = id}

\* C24: a start_authentication that finds no user of its username returns
\* UserNotFound, and one that finds the user without any credential
\* returns UserHasNoCredentials; both return at that step, with no
\* challenge, and store nothing in the session.
C24_LoginStartErrors ==
    [][\A r \in Running :
          /\ ( /\ StartAuthenticationUser(r)
               /\ faults' = faults
               /\ UsersNamed(r.username) = {} )
             => /\ BagCardinality(req') < BagCardinality(req)
                /\ last'.outcome = "UserNotFound"
                /\ sess' = sess
          /\ ( /\ StartAuthenticationCreds(r)
               /\ faults' = faults
               /\ CredsOf(r.uid) = {} )
             => /\ BagCardinality(req') < BagCardinality(req)
                /\ last'.outcome = "UserHasNoCredentials"
                /\ sess' = sess]_vars

\* bob is registered without a credential; his login_start was refused
C24_Witness ==
    /\ last.op = "start_authentication" /\ last.outcome = "UserHasNoCredentials"
    /\ UsersNamed(last.username) # {}
    /\ CredsOf(last.uid) = {}
    /\ Len(creds) >= 1
    /\ sess[last.s].auth_state = NoAuth

\* C25: a finish_register in a session without reg_state, and a
\* finish_authentication in a session without auth_state, returns
\* CorruptSession at its first step: it does not reach the engine and
\* changes neither the store nor the session (its user_id included).
C25_FinishWithoutStart ==
    [][\A s \in Sessions :
          ( \/ FinishRegisterGet(s) /\ sess[s].reg_state = NoPending
            \/ FinishAuthenticationGet(s) /\ sess[s].auth_state = NoAuth )
          => /\ req' = req
             /\ last'.outcome = "CorruptSession" /\ last'.s = s
             /\ users' = users /\ creds' = creds /\ tokens' = tokens
             /\ sess' = sess]_vars

\* a register_finish in a session that holds a pending authentication, but
\* no registration, returned CorruptSession
C25_Witness ==
    /\ last.op = "finish_register" /\ last.outcome = "CorruptSession"
    /\ sess[last.s].reg_state = NoPending
    /\ sess[last.s].auth_state # NoAuth

\* C27: every account-link row of the registry has link_for_user_id set and
\* no other row has, after create_invite_code, after the account-link
\* generator and after use_invite_code.
C27_LinkTargetIffAccountLink ==
    \A code \in DOMAIN tokens :
        tokens[code].present
        => /\ is_account_link_code(tokens[code])
              <=> tokens[code].link_for_user_id # None
           /\ is_account_link_code(tokens[code])
              <=> get_target_user_id(tokens[code]) # None

\* the registry holds an invite code and a consumed account-link code
C27_Witness ==
    /\ \E code \in DOMAIN tokens :
            tokens[code].present /\ ~is_account_link_code(tokens[code])
    /\ \E code \in DOMAIN tokens :
            /\ tokens[code].present /\ is_account_link_code(tokens[code])
            /\ tokens[code].used_at # None

\* C28: create_invite_code succeeds only for a well-formed code (8 to 128
\* characters, each alphanumeric, '-' or '_') that no row holds; a malformed
\* code is refused with an invalid-format error, a duplicate with a
\* duplicate error, and a refused create leaves the registry unchanged.
C28_CreateRejections ==
    [][\A code \in CandidateCodes :
          LET wellFormed ==
                  /\ Len(code) >= 8 /\ Len(code) <= 128
                  /\ \A i \in 1..Len(code) : code[i] \in {"A", "b", "7", "-", "_"}
              invalidFormat == {"InvalidInviteCodeFormat", "InviteCodeTooShort",
                                "InviteCodeTooLong"}
          IN CreateInviteCode(code)
             => /\ last'.outcome = "Ok" => wellFormed /\ ~tokens[code].present
                /\ ~wellFormed => last'.outcome \in invalidFormat
                /\ (wellFormed /\ tokens[code].present)
                        => last'.outcome = "Duplicate"
                /\ last'.outcome # "Ok" => tokens' = tokens]_vars

\* C34: a link register_finish reads the code again and goes on to persist
\* only when the row is an account link code that is active, unused and
\* unexpired at that read; otherwise (the code was consumed or has expired
\* since the start) the finish ends there with an error, and no credential
\* is saved.
C34_LinkFinishRechecksToken ==
    [][\A r \in Running :
          LET t == tokens[r.code]
              usable == /\ t.present /\ t.code_type = "account-link"
                        /\ t.is_active /\ t.used_at = None
                        /\ ~(t.link_expires_at # None /\ now > t.link_expires_at)
          IN (LinkGetCode(r) /\ faults' = faults)
             => IF usable
                THEN BagCardinality(req') = BagCardinality(req)
                ELSE /\ BagCardinality(req') < BagCardinality(req)
                     /\ last'.outcome = "DatabaseError"
                     /\ creds' = creds /\ tokens' = tokens /\ sess' = sess]_vars

\* a verified link finish was refused at the second read of its code, which
\* another finish had consumed after this ceremony's start; the only
\* credential saved under the code is the other finish's
C34_Witness ==
    /\ last.op = "finish_register" /\ last.is_link /\ last.verified
    /\ ~last.fault /\ last.outcome = "DatabaseError"
    /\ last.uid \in 1..Len(users)
    /\ tokens[last.code].used_at # None
    /\ Cardinality(CredsLinkedBy(last.code)) = 1

\* C35: every Identity created by a non-link register_finish that has
\* returned owns at least one Credential.
C35_CreatedIdentityHasCredential ==
    \A id \in 1..Len(users) :
        (\A r \in Running : ~(r.op = "finish_register" /\ r.uid = id
                               /\ r.pc = "nr_save"))
        => \E i \in 1..Len(creds) : creds[i].user_id = id

\* C39: require_authentication answers Unauthorized when the session holds
\* no user_id; it lets a request on only when get_user_by_id finds the row
\* of the session's user_id, and when there is no such row it answers
\* Unauthorized and removes user_id from the session.
C39_RequireAuthentication ==
    [][ /\ \A s \in Sessions, gate \in Gates :
              RequireAuthenticationGet(s, gate)
              => IF sess[s].user_id = None
                 THEN /\ last'.outcome = "Unauthorized" /\ last'.s = s
                      /\ req' = req /\ sess' = sess
                 ELSE BagCardinality(req') > BagCardinality(req)
        /\ \A r \in Running :
              (RequireAuthenticationUser(r) /\ faults' = faults)
              => IF \E id \in 1..Len(users) : id = r.uid
                 THEN /\ BagCardinality(req') = BagCardinality(req)
                      /\ sess' = sess
                 ELSE /\ BagCardinality(req') < BagCardinality(req)
                      /\ last'.outcome = "Unauthorized"
                      /\ sess'[r.s].user_id = None
                      /\ \A t \in Sessions \ {r.s} : sess'[t] = sess[t] ]_vars

\* a request of a session that held the id of a deleted user was refused and
\* the session holds no user_id now
C39_Witness ==
    /\ last.op \in Gates /\ last.outcome = "Unauthorized"
    /\ last.uid = 3 /\ ~(\E id \in 1..Len(users) : id = last.uid)
    /\ sess[last.s].user_id = None

\* C31: a step of a request changes the record of no session but the
\* request's own: the session of every record the step adds to or takes
\* from the running requests, and of the response it gives.
C31_SessionIsolation ==
    [][\A t \in Sessions :
          sess'[t] # sess[t]
          => \/ \E q \in BagToSet(req') :
                    q.s = t /\ CopiesIn(q, req') > CopiesIn(q, req)
             \/ \E q \in BagToSet(req) :
                    q.s = t /\ CopiesIn(q, req') < CopiesIn(q, req)]_vars

\* a logout returned in one session while another session holds a pending
\* authentication
C31_Witness ==
    /\ last.op = "logout" /\ last.outcome = "LoggedOut"
    /\ \E t \in Sessions \ {last.s} : sess[t].auth_state # NoAuth

\* C37: the validation steps of start_register leave the session as it is,
\* so a pending registration stored earlier stays and a finish_register
\* takes it up; start_authentication removes the session's auth_state at
\* its first step and its later steps store nothing unless the challenge is
\* returned, and a finish_authentication that finds no auth_state returns
\* CorruptSession.
C37_FailedStartAndPending ==
    [][ /\ \A s \in Sessions, u \in Usernames, c \in Codes \cup {NoCode} :
              StartRegisterGate(s, u, c) => sess' = sess
        /\ \A r \in Running : StartRegisterUser(r) => sess' = sess
        /\ \A s \in Sessions :
              (FinishRegisterGet(s) /\ sess[s].reg_state # NoPending)
              => \E q \in BagToSet(req') :
                    /\ CopiesIn(q, req') > CopiesIn(q, req)
                    /\ q.op = "finish_register" /\ q.s = s
                    /\ q.username = sess[s].reg_state.username
        /\ \A s \in Sessions, u \in Usernames :
              StartAuthenticationRemove(s, u) => sess'[s].auth_state = NoAuth
        /\ \A r \in Running :
              ( /\ \/ StartAuthenticationUser(r)
                   \/ StartAuthenticationCreds(r)
                   \/ StartAuthenticationInsert(r)
                /\ last'.outcome # "Challenge" )
              => sess' = sess
        /\ \A s \in Sessions :
              (FinishAuthenticationGet(s) /\ sess[s].auth_state = NoAuth)
              => last'.outcome = "CorruptSession" ]_vars

\* a start_register was refused for a registered username in a session that
\* still holds the pending registration of an earlier start
C37_Witness ==
    /\ last.op = "start_register" /\ last.outcome = "UserAlreadyExists"
    /\ sess[last.s].reg_state # NoPending
    /\ sess[last.s].reg_state.username # last.username

C33_UserIdOnlyBySuccessfulFinish ==
    [][\A s \in Sessions :
          sess'[s].user_id # sess[s].user_id
          => /\ BagCardinality(req') < BagCardinality(req)
             /\ last'.s = s /\ last'.verified
             /\ sess'[s].user_id = last'.uid
             /\ last'.uid \in 1..Len(users)
             /\ \/ /\ last'.outcome = "Authenticated"
                   /\ last'.op = "finish_authentication"
                   /\ users[last'.uid].username = "alice"
                \/ /\ last'.outcome = "Registered"
                   /\ last'.op = "finish_register" /\ ~last'.is_link
                   /\ last'.uid > 1
                   /\ users[last'.uid].username = last'.username
                   /\ CredsOf(last'.uid) # {}
                \/ /\ last'.outcome = "Linked"
                   /\ last'.op = "finish_register" /\ last'.is_link
                   /\ last'.uid = tokens[last'.code].link_for_user_id
                   /\ \E i \in CredsLinkedBy(last'.code) :
                            creds[i].user_id = last'.uid]_vars

\* a register_finish created bob and failed to save his credential, and no
\* session is logged in as bob; a login_finish logged its session in as
\* alice
C33_Witness ==
    /\ last.op = "finish_authentication" /\ last.outcome = "Authenticated"
    /\ sess[last.s].user_id = 1
    /\ Len(users) = 2 /\ CredsOf(2) = {}
    /\ \A t \in Sessions : sess[t].user_id # 2

\* C36: a finish_register or finish_authentication whose response the
\* engine rejects returns at that step; it leaves users, credentials and
\* codes as they are and changes in the session only the pending ceremony
\* of its kind, which it removes.
C36_FailedVerificationFrame ==
    [][\A r \in Running :
          /\ ( /\ FinishRegisterVerify(r)
               /\ BagCardinality(req') < BagCardinality(req)
               /\ last'.outcome = "BadRequest" )
             => /\ users' = users /\ creds' = creds /\ tokens' = tokens
                /\ sess' = [sess EXCEPT ![r.s].reg_state = NoPending]
          /\ ( /\ FinishAuthenticationVerify(r)
               /\ BagCardinality(req') < BagCardinality(req)
               /\ last'.outcome = "BadRequest" )
             => /\ users' = users /\ creds' = creds /\ tokens' = tokens
                /\ sess' = [sess EXCEPT ![r.s].auth_state = NoAuth]]_vars

\* the response of a link finish was rejected in a session logged in as
\* alice that also holds a pending login: the code is unused, no credential
\* was added, the session is still alice's and the pending login is kept
C36_Witness ==
    /\ last.op = "finish_register" /\ last.is_link /\ last.outcome = "BadRequest"
    /\ ~last.verified
    /\ sess[last.s].reg_state = NoPending
    /\ sess[last.s].auth_state # NoAuth
    /\ sess[last.s].user_id = 1
    /\ tokens[last.code].used_at = None
    /\ Len(creds) = 1 /\ Len(users) = 1

\* C32: with the runtime polling the requests that can go on, a session that
\* runs a request later runs none: every start and finish returns, whatever
\* the requests of other sessions that share its code or username do.  The
\* step at which a finish that found its pending ceremony removes it from
\* the session leaves the session without one.
C32_EveryRequestReturns ==
    /\ \A s \in Sessions : Busy(s) ~> ~Busy(s)
    /\ [][\A r \in Running :
             /\ FinishRegisterVerify(r) => sess'[r.s].reg_state = NoPending
             /\ FinishAuthenticationVerify(r) => sess'[r.s].auth_state = NoAuth]_vars

\* two link finishes of two sessions, both for alice's link code, called
\* use_invite_code and returned; no request runs and no session is left
\* with a pending registration
C32_Witness ==
    /\ req = EmptyBag
    /\ consumeLog["LINKCODE"].calls = 2
    /\ last.op = "finish_register" /\ last.is_link
    /\ \A s \in Sessions : sess[s].reg_state = NoPending

====
